---- MODULE Spec2Model ----
(***************************************************************************)
(* Model of the prompt-to-website generator: the landing page, the         *)
(* generator session (AppGenerator + ChatInterface component state), the   *)
(* asynchronous generation and edit requests, and the response parser of   *)
(* AIService.                                                              *)
(*                                                                         *)
(* Text is modelled as a sequence of tokens.  A token is a string that the *)
(* regular expressions of the source treat as a unit: the literal marker   *)
(* "FILE:", a triple-backtick fence, a newline, a space, a run of word     *)
(* characters, or a piece of prose / markup without any of the former.     *)
(* Len(token) is the token's length in characters.                         *)
(***************************************************************************)
EXTENDS Integers, Sequences, FiniteSets, TLC

(***************************************************************************)
(* Bounds of the model.                                                    *)
(***************************************************************************)
MaxSegs == 3        \* segments of a completion handed to the parser alone
MaxReplySegs == 1   \* segments of a completion returned to a session request
MaxRequests == 2    \* requests started in one behaviour

(***************************************************************************)
(* Tokens.                                                                 *)
(***************************************************************************)
FILE == "FILE:"
\* the triple-backtick fence (a TLA+ string cannot hold a backtick)
FENCE == "~~~"
NL == "\n"
SP == " "

\* the domains of the text functions
Text == Seq(STRING)
TokenSets == SUBSET STRING
FileRecords == [path : Text, content : Text, language : Text]
PageRecords == [name : STRING, filename : STRING, sections : STRING]

Spaces == {SP, NL}
NLs == {NL}
\* tokens made of word characters only (the class \w)
WordTokens == {"html", "HTML", "css", "x", "y", "Here", "The", "ok"}

None == "none"
\* selectedFile is null: no path
NoFile == <<>>

\* String.prototype.toLowerCase on one token
ToLower(t) ==
  CASE t = "HTML" -> "html"
    [] t = "Here" -> "here"
    [] t = "The" -> "the"
    [] t = "Generated Files:" -> "generated files:"
    [] t = "Create" -> "create"
    [] t = "Change" -> "change"
    [] t = "SHOP" -> "shop"
    [] t = "Blog" -> "blog"
    [] OTHER -> t

LowerSeq[s \in Text] == [i \in 1..Len(s) |-> ToLower(s[i])]

\* String.length of a text
TextLen[s \in Text] == IF s = <<>> THEN 0 ELSE Len(Head(s)) + TextLen[Tail(s)]

\* first position j >= i such that text[j] is not in S (Len(text)+1 if none)
RunEnd[text \in Text, i \in Nat, S \in TokenSets] ==
  CHOOSE j \in i..(Len(text) + 1) :
    /\ \A k \in i..(j - 1) : text[k] \in S
    /\ j = Len(text) + 1 \/ text[j] \notin S

\* first position j >= i such that text[j] is in S (Len(text)+1 if none)
FindFirst[text \in Text, i \in Nat, S \in TokenSets] ==
  CHOOSE j \in i..(Len(text) + 1) :
    /\ \A k \in i..(j - 1) : text[k] \notin S
    /\ j = Len(text) + 1 \/ text[j] \in S

\* String.prototype.trim
Trim[s \in Text] ==
  LET a == RunEnd[s, 1, Spaces]
      idx == {k \in 1..Len(s) : s[k] \notin Spaces}
      b == IF idx = {} THEN 0 ELSE CHOOSE k \in idx : \A m \in idx : m <= k
  IN IF a > Len(s) THEN <<>> ELSE SubSeq(s, a, b)

\* String.prototype.includes / indexOf: first position of sub in text, 0 if absent
IndexOf[text \in Text, sub \in Text] ==
  LET pos == {p \in 1..(Len(text) - Len(sub) + 1) : SubSeq(text, p, p + Len(sub) - 1) = sub}
  IN IF pos = {} THEN 0 ELSE CHOOSE p \in pos : \A q \in pos : p <= q

Contains(text, sub) == IndexOf[text, sub] > 0

Cut[text \in Text, a \in Int, b \in Int] == SubSeq(text, 1, a - 1) \o SubSeq(text, b + 1, Len(text))

(***************************************************************************)
(* The file regular expression                                             *)
(*   FILE:\s*([^\n\r]+)[\n\r]+```(\w+)?[\n\r]+([\s\S]*?)```                 *)
(* and its edit-request variant                                            *)
(*   FILE:\s*([^\n]+)\n```(\w+)?\n([\s\S]*?)```                             *)
(* (strict = TRUE: exactly one newline where the other takes a run).       *)
(***************************************************************************)
NoMatch == [ok |-> FALSE]

\* the closing fence at position close: the match is complete
CloseFence[text \in Text, s \in Nat, e \in Nat, f \in Nat, w \in Nat, c \in Nat, close \in Nat] ==
  IF close > Len(text) THEN NoMatch
  ELSE [ok |-> TRUE,
        path |-> SubSeq(text, s, e - 1),
        hasLang |-> w > f + 1,
        lang |-> SubSeq(text, f + 1, w - 1),
        content |-> SubSeq(text, c, close - 1),
        end |-> close]

\* ([\s\S]*?)``` : the content runs from c to the first fence
ContentGroup[text \in Text, s \in Nat, e \in Nat, f \in Nat, w \in Nat, c \in Nat] ==
  CloseFence[text, s, e, f, w, c, FindFirst[text, c, {FENCE}]]

\* (\w+)?[\n\r]+ : the language is f+1..w-1, newlines follow
LangGroup[text \in Text, s \in Nat, e \in Nat, f \in Nat, w \in Nat, strict \in BOOLEAN] ==
  IF w > Len(text) \/ text[w] # NL THEN NoMatch
  ELSE ContentGroup[text, s, e, f, w, IF strict THEN w + 1 ELSE RunEnd[text, w, NLs]]

\* [\n\r]+``` : the opening fence stands at f
OpenFence[text \in Text, s \in Nat, e \in Nat, f \in Nat, strict \in BOOLEAN] ==
  IF e > Len(text) \/ f > Len(text) \/ text[f] # FENCE THEN NoMatch
  ELSE LangGroup[text, s, e, f, RunEnd[text, f + 1, WordTokens], strict]

\* ([^\n\r]+) : the path is s..e-1
PathGroup[text \in Text, s \in Nat, e \in Nat, strict \in BOOLEAN] ==
  OpenFence[text, s, e, IF strict THEN e + 1 ELSE RunEnd[text, e, NLs], strict]

\* the rest of the expression, with the path group starting at s
TailMatch[text \in Text, s \in Nat, strict \in BOOLEAN] ==
  IF s > Len(text) \/ text[s] = NL THEN NoMatch
  ELSE PathGroup[text, s, FindFirst[text, s, NLs], strict]

OrElse(m, alt) == IF m.ok THEN m ELSE alt

\* \s* is greedy and gives back one character at a time: the path group is
\* tried at s, then at s-1, down to the character after the marker at i
Backtrack[text \in Text, i \in Nat, s \in Nat, strict \in BOOLEAN] ==
  IF s <= i THEN NoMatch
  ELSE OrElse(TailMatch[text, s, strict], Backtrack[text, i, s - 1, strict])

\* a match starting at the marker at position i
MatchAt[text \in Text, i \in Nat, strict \in BOOLEAN] ==
  Backtrack[text, i, RunEnd[text, i + 1, Spaces], strict]

\* RegExp.prototype.exec in a loop with the g flag: all matches from position p
ExecAll[text \in Text, p \in Nat, strict \in BOOLEAN] ==
  LET q == FindFirst[text, p, {FILE}]     \* the next marker
  IN IF q > Len(text) THEN <<>>
     ELSE IF MatchAt[text, q, strict].ok
       THEN <<MatchAt[text, q, strict]>> \o ExecAll[text, MatchAt[text, q, strict].end + 1, strict]
       ELSE ExecAll[text, q + 1, strict]

\* a variant that pushes the captured groups as they are
FileOfUntrimmed(m) ==
  [path |-> m.path,
   content |-> m.content,
   language |-> IF m.hasLang THEN m.lang ELSE <<"text">>]

\* the record pushed for one match
FileOf(m) ==
  [path |-> Trim[m.path],
   content |-> Trim[m.content],
   language |-> IF m.hasLang THEN LowerSeq[m.lang] ELSE <<"text">>]

FilesOf(ms) == [k \in 1..Len(ms) |-> FileOf(ms[k])]

\* the file loop of AIService.parseResponse
ExtractFiles(text) == FilesOf(ExecAll[text, 1, FALSE])

\* the file loop of handleEditRequest
ExtractEdited(text) == FilesOf(ExecAll[text, 1, TRUE])

(***************************************************************************)
(* The description of AIService.parseResponse.                             *)
(***************************************************************************)
\* .replace(/FILE:\s*[^\n\r]+[\n\r]+```[\w]*[\n\r]+[\s\S]*?```/g, ''),
\* scanning from position p
RemoveFileBlocks[text \in Text, p \in Nat] ==
  LET q == FindFirst[text, p, {FILE}]     \* the next marker
  IN IF q > Len(text) THEN SubSeq(text, p, Len(text))
     ELSE IF MatchAt[text, q, FALSE].ok
       THEN SubSeq(text, p, q - 1) \o RemoveFileBlocks[text, MatchAt[text, q, FALSE].end + 1]
       ELSE SubSeq(text, p, q) \o RemoveFileBlocks[text, q + 1]

\* .replace(/```[\s\S]*?```/g, '')
RemoveCodeBlocks[text \in Text] ==
  LET a == FindFirst[text, 1, {FENCE}]
      b == FindFirst[text, a + 1, {FENCE}]
  IN IF a > Len(text) \/ b > Len(text) THEN text
     ELSE SubSeq(text, 1, a - 1) \o RemoveCodeBlocks[SubSeq(text, b + 1, Len(text))]

\* .replace(/^\s*[\n\r]+/gm, ''), scanning from the line start p
RemoveEmptyLines[text \in Text, p \in Nat] ==
  IF p > Len(text) THEN text
  ELSE
    LET r == RunEnd[text, p, Spaces]
        nls == {k \in p..(r - 1) : text[k] = NL}
    IN IF nls # {}
       THEN LET last == CHOOSE k \in nls : \A m \in nls : m <= k
                rest == SubSeq(text, last + 1, Len(text))
                nxt == FindFirst[rest, 1, NLs] + 1
            IN SubSeq(text, 1, p - 1) \o RemoveEmptyLines[rest, nxt]
       ELSE RemoveEmptyLines[text, FindFirst[text, p, NLs] + 1]

\* .replace(/[\n\r]{3,}/g, '\n\n')
ReduceNewlines[text \in Text] ==
  LET a == FindFirst[text, 1, NLs]
      b == RunEnd[text, a, NLs]
  IN IF a > Len(text) THEN text
     ELSE SubSeq(text, 1, a - 1)
          \o (IF b - a >= 3 THEN <<NL, NL>> ELSE SubSeq(text, a, b - 1))
          \o ReduceNewlines[SubSeq(text, b, Len(text))]

\* the description before the length / opener test (ai-service.ts 728-733)
CleanDescription(content) ==
  Trim[ReduceNewlines[RemoveEmptyLines[RemoveCodeBlocks[RemoveFileBlocks[content, 1]], 1]]]

\* description.match(/^(Generated Files?:?|Here|The)/i): the tokens of the
\* vocabulary that begin, case-insensitively, with one of the openers
OpenerTokens ==
  {"Generated Files:", "generated files:", "Here", "here", "The", "the",
   "The application uses WebMeccano's signature colors."}
StartsWithOpener(d) == d # <<>> /\ d[1] \in OpenerTokens

MinDescription == 50

(***************************************************************************)
(* Prompts and the template catalog (TemplateService).                     *)
(***************************************************************************)
PromptCoffee ==
  <<"Create", SP, "a", SP, "landing", SP, "page", SP, "for", SP, "a", SP, "coffee", SP, "shop">>
PromptEdit == <<"Change", SP, "the", SP, "title">>
PromptPages == <<"about", SP, "and", SP, "contact", SP, "pages">>
PromptEmpty == <<>>

Prompts == {PromptCoffee, PromptEdit, PromptPages, PromptEmpty}

\* a keyword occurs inside one token of the vocabulary
TokenHas(t, k) == t = k \/ <<t, k>> \in {<<"pages", "page">>, <<"about.html", "about">>}

\* a variant that tests the prompt as it was typed
IncludesAsTyped(prompt, kw) ==
  IF Len(kw) = 1 THEN \E i \in 1..Len(prompt) : TokenHas(prompt[i], kw[1])
  ELSE Contains(prompt, kw)

\* lowerPrompt.includes(keyword); a keyword is a token sequence
Includes(prompt, kw) ==
  LET low == LowerSeq[prompt]
  IN IF Len(kw) = 1 THEN \E i \in 1..Len(low) : TokenHas(low[i], kw[1])
     ELSE Contains(low, kw)

IncludesAny(prompt, kws) == \E kw \in kws : Includes(prompt, kw)

Templates ==
  [business |->
     [name |-> "Corporate Business", category |-> "business",
      features |-> <<"Responsive Design", "Contact Forms", "Team Section", "Services">>,
      pages |-> << [name |-> "Home", filename |-> "index.html", sections |-> "hero, about-preview, services-preview, cta"],
                   [name |-> "About", filename |-> "about.html", sections |-> "company-story, team, values, history"],
                   [name |-> "Services", filename |-> "services.html", sections |-> "services-grid, process, pricing"],
                   [name |-> "Contact", filename |-> "contact.html", sections |-> "contact-form, location, info"] >>],
   ecommerce |->
     [name |-> "E-commerce Store", category |-> "ecommerce",
      features |-> <<"Product Catalog", "Shopping Cart", "User Accounts", "Payment Integration">>,
      pages |-> << [name |-> "Home", filename |-> "index.html", sections |-> "hero-banner, featured-products, categories, testimonials"],
                   [name |-> "Products", filename |-> "products.html", sections |-> "product-grid, filters, pagination"],
                   [name |-> "Product Detail", filename |-> "product.html", sections |-> "product-images, product-info, reviews, related"],
                   [name |-> "Cart", filename |-> "cart.html", sections |-> "cart-items, summary, checkout-btn"],
                   [name |-> "About", filename |-> "about.html", sections |-> "company-story, mission"],
                   [name |-> "Contact", filename |-> "contact.html", sections |-> "contact-form, support-info"] >>],
   portfolio |->
     [name |-> "Creative Portfolio", category |-> "portfolio",
      features |-> <<"Project Gallery", "About Section", "Contact Form", "Responsive Design">>,
      pages |-> << [name |-> "Home", filename |-> "index.html", sections |-> "hero, featured-work, about-preview, contact-cta"],
                   [name |-> "Portfolio", filename |-> "portfolio.html", sections |-> "project-grid, categories-filter"],
                   [name |-> "About", filename |-> "about.html", sections |-> "bio, skills, experience"],
                   [name |-> "Contact", filename |-> "contact.html", sections |-> "contact-form, social-links"] >>],
   blog |->
     [name |-> "Blog & Magazine", category |-> "blog",
      features |-> <<"Article Listings", "Categories", "Search", "Author Profiles">>,
      pages |-> << [name |-> "Home", filename |-> "index.html", sections |-> "featured-posts, recent-posts, categories"],
                   [name |-> "Blog", filename |-> "blog.html", sections |-> "post-grid, sidebar, pagination"],
                   [name |-> "Post", filename |-> "post.html", sections |-> "post-content, author-bio, related-posts"],
                   [name |-> "About", filename |-> "about.html", sections |-> "author-info, mission"],
                   [name |-> "Contact", filename |-> "contact.html", sections |-> "contact-form"] >>],
   dashboard |->
     [name |-> "Dashboard Application", category |-> "dashboard",
      features |-> <<"Data Visualization", "User Management", "Analytics", "Responsive Layout">>,
      pages |-> << [name |-> "Dashboard", filename |-> "index.html", sections |-> "stats-cards, charts, recent-activity"],
                   [name |-> "Analytics", filename |-> "analytics.html", sections |-> "performance-metrics, charts-grid"],
                   [name |-> "Users", filename |-> "users.html", sections |-> "user-table, user-actions"],
                   [name |-> "Settings", filename |-> "settings.html", sections |-> "account-settings, preferences"],
                   [name |-> "Login", filename |-> "login.html", sections |-> "login-form"] >>],
   landing |->
     [name |-> "Landing Page", category |-> "landing",
      features |-> <<"Hero Section", "Features", "Testimonials", "Call-to-Action">>,
      pages |-> << [name |-> "Landing", filename |-> "index.html", sections |-> "hero, features, testimonials, pricing, cta, footer"] >>]]

\* name.toLowerCase() of the catalog names
LowerName(n) ==
  CASE n = "Corporate Business" -> "corporate business"
    [] n = "E-commerce Store" -> "e-commerce store"
    [] n = "Creative Portfolio" -> "creative portfolio"
    [] n = "Blog & Magazine" -> "blog & magazine"
    [] n = "Dashboard Application" -> "dashboard application"
    [] n = "Landing Page" -> "landing page"
    [] OTHER -> n

detectTemplateFromPrompt(prompt) ==
  IF IncludesAny(prompt, {<<"shop">>, <<"store">>, <<"ecommerce">>, <<"product">>, <<"cart">>, <<"buy">>, <<"sell">>})
    THEN Templates.ecommerce
  ELSE IF IncludesAny(prompt, {<<"portfolio">>, <<"showcase">>, <<"gallery">>, <<"creative">>, <<"designer">>, <<"artist">>})
    THEN Templates.portfolio
  ELSE IF IncludesAny(prompt, {<<"blog">>, <<"article">>, <<"news">>, <<"magazine">>, <<"content">>, <<"post">>})
    THEN Templates.blog
  ELSE IF IncludesAny(prompt, {<<"dashboard">>, <<"admin">>, <<"analytics">>, <<"management">>, <<"data">>, <<"chart">>})
    THEN Templates.dashboard
  ELSE IF IncludesAny(prompt, {<<"landing">>, <<"single", SP, "page">>, <<"conversion">>, <<"marketing">>})
    THEN Templates.landing
  ELSE IF /\ Includes(prompt, <<"about">>) /\ Includes(prompt, <<"contact">>)
          /\ (Includes(prompt, <<"service">>) \/ Includes(prompt, <<"company">>))
    THEN Templates.business
  ELSE IF Includes(prompt, <<"page">>) /\ ~Includes(prompt, <<"single">>)
    THEN Templates.business
  ELSE Templates.landing

isSinglePage(prompt) ==
  \/ Includes(prompt, <<"single", SP, "page">>)
  \/ Includes(prompt, <<"landing">>)
  \/ Includes(prompt, <<"one", SP, "page">>)
  \/ (~Includes(prompt, <<"about">>) /\ ~Includes(prompt, <<"contact">>) /\ ~Includes(prompt, <<"service">>))

\* array.map(f).join('\n') for the "- feature" lines
FeatureLines[fs \in Text] ==
  IF fs = <<>> THEN <<>>
  ELSE <<"-", SP, Head(fs)>> \o (IF Len(fs) > 1 THEN <<NL>> ELSE <<>>) \o FeatureLines[Tail(fs)]

PageLines[ps \in Seq(PageRecords)] ==
  IF ps = <<>> THEN <<>>
  ELSE <<"-", SP, "**", Head(ps).name, "**", SP, "(", Head(ps).filename, "):", SP, Head(ps).sections>>
       \o (IF Len(ps) > 1 THEN <<NL>> ELSE <<>>) \o PageLines[Tail(ps)]

\* the synthesized description of parseResponse (ai-service.ts 736-751)
FallbackDescription(template, single, nfiles) ==
  <<"I've generated a complete", SP, IF single THEN "single-page" ELSE "multi-page", SP,
    LowerName(template.name), SP, "based on your request!", NL, NL,
    "**Template Used:**", SP, template.name, NL,
    "**Category:**", SP, template.category, NL,
    "**", "Generated Files:", "**", SP, ToString(nfiles), SP, "files", NL, NL,
    "**Features Included:**", NL>>
  \o FeatureLines[template.features]
  \o <<NL, NL, "**Pages Generated:**", NL>>
  \o (IF single THEN <<"-", SP, "Single responsive page with all sections">>
      ELSE PageLines[template.pages])
  \o <<NL, NL, "The application uses WebMeccano's signature colors.", NL, NL,
       "You can now view the live preview or edit the code.">>

\* a variant whose length test asks for twice as many characters
DescriptionOrLonger(description, fallback) ==
  IF TextLen[description] < 2 * MinDescription \/ StartsWithOpener(description)
  THEN fallback ELSE description

\* AIService.parseResponse
DescriptionOr(description, fallback) ==
  IF TextLen[description] < MinDescription \/ StartsWithOpener(description)
  THEN fallback ELSE description

\* the description pipeline of parseResponse (ai-service.ts 728-752) for a given
\* synthesized description
Sanitize(text, fallback) == DescriptionOr(CleanDescription(text), fallback)

ParsedResponse(files, description, template, single) ==
  [content |-> DescriptionOr(description, FallbackDescription(template, single, Len(files))),
   files |-> files]

parseResponse(content, template, single) ==
  ParsedResponse(ExtractFiles(content), CleanDescription(content), template, single)

(***************************************************************************)
(* generateResponse of ChatInterface: the second parse, the description    *)
(* clean-up, the placeholder file and the image decoration.                *)
(***************************************************************************)
\* cleanDescription.replace(fullMatch, ''): the first occurrence only
RemoveFirst[text \in Text, sub \in Text] ==
  LET p == IndexOf[text, sub]
  IN IF p = 0 THEN text ELSE Cut[text, p, p + Len(sub) - 1]

\* the while loop over fileRegex.exec(result.content) (ChatInterface.tsx 122-138):
\* each full match is removed from the description where it first occurs
RemoveFullMatches[desc \in Text, text \in Text, p \in Nat] ==
  LET q == FindFirst[text, p, {FILE}]     \* the next marker
  IN IF q > Len(text) THEN desc
     ELSE IF MatchAt[text, q, FALSE].ok
       THEN RemoveFullMatches[RemoveFirst[desc, SubSeq(text, q, MatchAt[text, q, FALSE].end)],
                              text, MatchAt[text, q, FALSE].end + 1]
       ELSE RemoveFullMatches[desc, text, q + 1]

\* .replace(/FILE:\s*[^\n]+/g, ''), scanning from position p
RemoveMarkers[text \in Text, p \in Nat] ==
  LET marks == {i \in p..Len(text) :
                  /\ text[i] = FILE
                  /\ \E s \in (i + 1)..RunEnd[text, i + 1, Spaces] : s <= Len(text) /\ text[s] # NL}
  IN IF marks = {} THEN text
     ELSE LET i == CHOOSE c \in marks : \A d \in marks : c <= d
              starts == {s \in (i + 1)..RunEnd[text, i + 1, Spaces] : s <= Len(text) /\ text[s] # NL}
              s == CHOOSE t \in starts : \A u \in starts : u <= t
              e == FindFirst[text, s, NLs] - 1
          IN SubSeq(text, 1, i - 1) \o RemoveMarkers[SubSeq(text, e + 1, Len(text)), 1]

\* .replace(/Generated Files?:?[\s\S]*$/i, '')
GeneratedFilesTokens == {"Generated Files:", "generated files:"}
RemoveGeneratedFiles(text) ==
  SubSeq(text, 1, FindFirst[text, 1, GeneratedFilesTokens] - 1)

\* .replace(/\n\s*\n\s*\n/g, '\n\n')
RemoveExcessNewlines[text \in Text] ==
  LET a == FindFirst[text, 1, NLs]
      r == RunEnd[text, a, Spaces]
      nls == {k \in a..(r - 1) : text[k] = NL}
  IN IF a > Len(text) THEN text
     ELSE IF Cardinality(nls) >= 3
       THEN LET last == CHOOSE k \in nls : \A m \in nls : m <= k
            IN SubSeq(text, 1, a - 1) \o <<NL, NL>>
               \o RemoveExcessNewlines[SubSeq(text, last + 1, Len(text))]
       ELSE SubSeq(text, 1, r - 1) \o RemoveExcessNewlines[SubSeq(text, r, Len(text))]

\* ChatInterface.tsx 141-146
CleanChatDescription(desc) ==
  Trim[RemoveExcessNewlines[RemoveGeneratedFiles(RemoveMarkers[RemoveCodeBlocks[desc], 1])]]

HtmlLang == <<"html">>
IndexPath == <<"index.html">>
AboutPath == <<"about.html">>
StylePath == <<"style.css">>

\* the "basic template" of ChatInterface.tsx 150-302
PlaceholderContent ==
  <<"<!DOCTYPE html>", NL, "<title>WebMeccano Generated App</title>", NL,
    "<style>", "body {", "background:", SP, "linear-gradient(135deg, #667eea 0%, #764ba2 100%)", ";",
    "min-height: 100vh", ";", "}", "h1 {", "background-clip:", SP, "text", ";", "}", "</style>", NL,
    "<body", ">", NL, "<h1>WebMeccano</h1>", NL,
    "<p>Your beautiful app has been generated!</p>", NL, "</body>", NL, "</html>">>

PlaceholderFiles ==
  << [path |-> IndexPath, content |-> PlaceholderContent, language |-> HtmlLang] >>

\* the file of the fallback message in the catch branch (ChatInterface.tsx 408-450)
FallbackContent ==
  <<"<!DOCTYPE html>", NL, "<title>WebMeccano App</title>", NL,
    "<style>", "body {", "background:", SP, "linear-gradient(135deg, #34bfc2, #F78D2B)", ";", "}", "</style>", NL,
    "<body", ">", NL, "<h1>WebMeccano App</h1>", NL,
    "<p>Ready to build something amazing!</p>", NL, "</body>", NL, "</html>">>

FallbackFiles ==
  << [path |-> IndexPath, content |-> FallbackContent, language |-> HtmlLang] >>

\* ChatInterface.tsx 113-151: parse again, prefer the parsed files, else the
\* service's files, else the placeholder
OrPlaceholder(files) == IF Len(files) = 0 THEN PlaceholderFiles ELSE files
OrServiceFiles(parsedFiles, result) ==
  OrPlaceholder(IF Len(parsedFiles) > 0 THEN parsedFiles ELSE result.files)
ChooseFiles(result) == OrServiceFiles(ExtractFiles(result.content), result)

ChatDescription(result) ==
  CleanChatDescription(RemoveFullMatches[result.content, result.content, 1])

\* String.prototype.toUpperCase on a language tag
ToUpper(t) ==
  CASE t = "html" -> "HTML"
    [] t = "css" -> "CSS"
    [] t = "text" -> "TEXT"
    [] OTHER -> t

\* files.map(f => `- **${f.path}**: ${f.language.toUpperCase()} file`).join('\n')
FileLines[fs \in Seq(FileRecords)] ==
  IF fs = <<>> THEN <<>>
  ELSE <<"-", SP, "**">> \o Head(fs).path \o <<"**:", SP>>
       \o [i \in 1..Len(Head(fs).language) |-> ToUpper(Head(fs).language[i])]
       \o <<SP, "file">> \o (IF Len(fs) > 1 THEN <<NL>> ELSE <<>>) \o FileLines[Tail(fs)]

\* the text generateResponse writes itself when the cleaned description is
\* empty (ChatInterface.tsx 366-382)
OwnDescription(template, single, files) ==
  <<"I've generated your", SP, IF single THEN "single-page" ELSE "multi-page", SP,
    LowerName(template.name), SP, "based on your request!", SP, NL, NL,
    "**", "Generated Files:", "**", NL>>
  \o FileLines[files]
  \o <<NL, NL, "**Template Used:**", SP, template.name, NL, "**Features included:**", NL>>
  \o FeatureLines[template.features]
  \o <<NL, NL, "**Features included:**", NL, "-", SP,
       "Responsive design with WebMeccano branding", NL, NL,
       "You can now view the live preview or edit the code.">>

\* content: cleanDescription || `...`
MessageContent(cleanDescription, own) ==
  IF cleanDescription = <<>> THEN own ELSE cleanDescription

\* the content of the assistant message of a generation
ShownDescription(result, template, single) ==
  MessageContent(ChatDescription(result), OwnDescription(template, single, ChooseFiles(result)))

(***************************************************************************)
(* Image decoration (ChatInterface.tsx 305-361).                           *)
(***************************************************************************)
PhotoUrls == {"https://images.unsplash.com/photo-1", "https://images.unsplash.com/photo-2"}

\* the results searchImages can deliver (urls.regular of each photo)
ImageLists ==
  {<<>>, <<"https://images.unsplash.com/photo-1">>,
   <<"https://images.unsplash.com/photo-1", "https://images.unsplash.com/photo-2">>}

\* the tokens each placeholder pattern matches
PatternTokens(k) ==
  CASE k = 1 -> {"https://via.placeholder.com/300"}
    [] k = 2 -> {"https://images.unsplash.com/old"} \cup PhotoUrls
    [] k = 3 -> {"placeholder.jpg"}
    [] OTHER -> {"image1.png"}

UrlTokens == {"https://via.placeholder.com/300", "https://images.unsplash.com/old"} \cup PhotoUrls
BodyTokens == {"<body", "<body>"}
HtmlPathTokens == {"index.html", "about.html"}
BgTokens == {"background:", "background-clip:"}
ImgSrc == "<img src=\""
Quote == "\""

\* updatedContent.replace(pattern, () => ...) with the shared imageIndex
ReplacePattern[content \in Text, toks \in TokenSets, images \in Text, idx \in Nat] ==
  LET a == FindFirst[content, 1, toks]
  IN IF a > Len(content) THEN [content |-> content, idx |-> idx]
     ELSE LET url == IF idx < Len(images) THEN images[(idx % Len(images)) + 1] ELSE images[1]
              nidx == IF idx < Len(images) THEN idx + 1 ELSE idx
              rest == ReplacePattern[SubSeq(content, a + 1, Len(content)), toks, images, nidx]
          IN [content |-> SubSeq(content, 1, a - 1) \o <<url>> \o rest.content,
              idx |-> rest.idx]

\* placeholderPatterns.forEach(...)
ReplacePlaceholders[content \in Text, k \in Nat, images \in Text, idx \in Nat] ==
  IF k > 4 THEN [content |-> content, idx |-> idx]
  ELSE LET r == ReplacePattern[content, PatternTokens(k), images, idx]
       IN ReplacePlaceholders[r.content, k + 1, images, r.idx]

\* .replace(/(background[^;]*:\s*)(url\([^)]*\)|[^;]*)(;|$)/gi, `$1url('${images[0].url}')$3`)
ReplaceBackgrounds[content \in Text, images \in Text] ==
  LET a == FindFirst[content, 1, BgTokens]
      semi == FindFirst[content, a, {";"}]
      colons == {k \in a..(semi - 1) : content[k] \in BgTokens \cup UrlTokens}
  IN IF a > Len(content) THEN content
     ELSE LET c == CHOOSE k \in colons : \A m \in colons : m <= k
              keep == IF content[c] \in UrlTokens
                      THEN SubSeq(content, 1, c - 1) \o <<"https:">>
                      ELSE SubSeq(content, 1, RunEnd[content, c + 1, Spaces] - 1)
          IN keep \o <<"url('", images[1], "')">>
             \o (IF semi <= Len(content) THEN <<";">> ELSE <<>>)
             \o ReplaceBackgrounds[SubSeq(content, semi + 1, Len(content)), images]

\* .replace(/<img[^>]+src=["'][^"']*["']/gi, (match) => ...)
ReplaceImgSrc[content \in Text, images \in Text, idx \in Nat] ==
  LET tags == {i \in 1..(Len(content) - 2) :
                 content[i] = ImgSrc /\ content[i + 1] # Quote /\ content[i + 2] = Quote}
  IN IF tags = {} THEN content
     ELSE LET i == CHOOSE c \in tags : \A d \in tags : c <= d
              url == IF idx < Len(images) THEN images[(idx % Len(images)) + 1] ELSE content[i + 1]
              nidx == IF idx < Len(images) THEN idx + 1 ELSE idx
          IN SubSeq(content, 1, i) \o <<url, Quote>>
             \o ReplaceImgSrc[SubSeq(content, i + 3, Len(content)), images, nidx]

\* the body of files.map for one HTML file that has a <body
DecorateContent(content, images) ==
  LET r == ReplacePlaceholders[content, 1, images, 0]
  IN IF r.content = content /\ Len(images) > 0
     THEN ReplaceImgSrc[ReplaceBackgrounds[content, images], images, r.idx]
     ELSE r.content

EndsWithHtml(path) == path # <<>> /\ path[Len(path)] \in HtmlPathTokens
HasBody(content) == \E i \in 1..Len(content) : content[i] \in BodyTokens

\* a variant that rewrites every file that has a <body, whatever its path
DecorateAnyPath(files, images) ==
  IF Len(images) = 0 THEN files
  ELSE [k \in 1..Len(files) |->
          IF HasBody(files[k].content)
          THEN [files[k] EXCEPT !.content = DecorateContent(files[k].content, images)]
          ELSE files[k]]

\* if (images.length > 0) files = files.map(...)
Decorate(files, images) ==
  IF Len(images) = 0 THEN files
  ELSE [k \in 1..Len(files) |->
          IF EndsWithHtml(files[k].path) /\ HasBody(files[k].content)
          THEN [files[k] EXCEPT !.content = DecorateContent(files[k].content, images)]
          ELSE files[k]]

(***************************************************************************)
(* The completions the text-generation service can return: concatenations  *)
(* of at most MaxSegs segments.                                            *)
(***************************************************************************)
LongProse == "This page presents the coffee shop with a hero section and a menu."
MidTag == "<div class=\"hero"

\* well-formed FILE: blocks, with the record each one declares
Blocks ==
  [B1 |-> [path |-> <<"index.html">>, language |-> <<"html">>, content |-> <<"<body>", NL, "x">>],
   B2 |-> [path |-> <<"about.html">>, language |-> <<"HTML">>, content |-> <<"y">>],
   B3 |-> [path |-> <<"index.html">>, language |-> <<>>, content |-> <<"y">>]]

BlockIds == {"B1", "B2", "B3"}

\* the wire format: FILE: <path>, a fence with the optional language tag,
\* the content, the closing fence
BlockText(b) ==
  <<FILE, SP>> \o b.path \o <<NL, FENCE>> \o b.language \o <<NL>> \o b.content \o <<NL, FENCE, NL>>

SegmentIds == BlockIds \cup {"T1", "E1", "H1", "P1", "P2"}

\* T1: a block cut off inside a tag; E1: a marker with a blank path
SegmentText(id) ==
  CASE id \in BlockIds -> BlockText(Blocks[id])
    [] id = "T1" -> <<FILE, SP, "index.html", NL, FENCE, "html", NL, MidTag>>
    [] id = "E1" -> <<FILE, SP, NL, FENCE, "html", NL, "x", NL, FENCE, NL>>
    [] id = "H1" -> <<FENCE, "html", NL, "x", NL, FENCE, NL>>
    [] id = "P1" -> <<LongProse, NL>>
    [] OTHER -> <<"Here", SP, "ok", NL>>

\* the completion stops inside an opening tag
EndsMidTag(text) == text # <<>> /\ text[Len(text)] = MidTag

SegLists == UNION {[1..n -> SegmentIds] : n \in 0..MaxSegs}
\* completions with two files: of different paths, and of the same path
TwoBlockReplies == {<<"B1", "B2">>, <<"B1", "B3">>}
ReplyLists == UNION {[1..n -> SegmentIds] : n \in 0..MaxReplySegs} \cup TwoBlockReplies

Render[segs \in Seq(SegmentIds)] ==
  IF segs = <<>> THEN <<>> ELSE SegmentText(Head(segs)) \o Render[Tail(segs)]

(***************************************************************************)
(* State.                                                                  *)
(***************************************************************************)
VARIABLES
  currentView,       \* Index: "landing" or "generator"
  generationData,    \* Index: the prompt and image handed to the generator
  appFiles,          \* AppGenerator: appState.files
  appIsGenerating,   \* AppGenerator: appState.isGenerating
  currentProject,    \* AppGenerator: appState.currentProject
  selectedProvider,  \* AppGenerator: selectedProvider
  selectedFile,      \* AppGenerator: selectedFile
  isGenerating,      \* ChatInterface: isGenerating
  messages,          \* ChatInterface: messages (role and kind of each)
  reqs,              \* the requests of the mounted session that are in flight
  nreq,              \* number of requests started so far
  orphans,           \* requests still in flight whose session was left by Back
  lastDone,          \* what the request that finished last did, while the project is as it left it
  input,             \* the parser alone: the completion and prompt handed to it
  parsed,            \* the parser alone: what it returned
  request,           \* TemplateService alone: the prompt handed to it
  derived,           \* TemplateService alone: the template and page mode it derived
  deco,              \* the image decoration alone: the files and photos handed to it
  decorated          \* the image decoration alone: the files it returned

appVars == <<currentView, generationData, appFiles, appIsGenerating, currentProject,
             selectedProvider, selectedFile, isGenerating, messages, reqs, nreq,
             orphans, lastDone>>
parseVars == <<input, parsed>>
templateVars == <<request, derived>>
decorateVars == <<deco, decorated>>
aloneVars == <<parseVars, templateVars, decorateVars>>
vars == <<appVars, aloneVars>>

Providers == {"gemini", "openai", "claude"}
\* how the fetch of generateWithGemini can fail: the transport, a non-success
\* status, a payload without candidate text
FailureReasons == {"network", "status", "payload"}
NoDone == [id |-> 0]
GenerationFailed == "Failed to generate with Gemini API"

AppInit ==
  /\ currentView = "landing"
  /\ generationData = None
  /\ appFiles = <<>>
  /\ appIsGenerating = FALSE
  /\ currentProject = None
  /\ selectedProvider = "gemini"
  /\ selectedFile = NoFile
  /\ isGenerating = FALSE
  /\ messages = <<>>
  /\ reqs = {}
  /\ nreq = 0
  /\ orphans = 0
  /\ lastDone = NoDone

\* the parser alone takes no step in a session
NoInput == [segs |-> <<>>, prompt |-> <<>>]
ParseIdle == input = NoInput /\ parsed = <<>>

\* nor do TemplateService alone and the image decoration alone
TemplateIdle == request = <<>> /\ derived = <<>>
NoDeco == [files |-> <<>>, images |-> <<>>]
DecorateIdle == deco = NoDeco /\ decorated = <<>>

Init ==
  /\ AppInit
  /\ ParseIdle
  /\ TemplateIdle
  /\ DecorateIdle

(***************************************************************************)
(* Pieces of the handlers.                                                 *)
(***************************************************************************)
\* a variant that keeps the previous files and appends the new ones
FilesMerged(prev, files) == prev \o files

\* setAppState(prev => ({...prev, files})) of handleFileGenerated
FilesAfterGenerated(prev, files) == files

\* prev.files.map(existingFile => editedFiles.find(...) || existingFile)
PatchFiles(prev, edited) ==
  [k \in 1..Len(prev) |->
     LET hits == {j \in 1..Len(edited) : edited[j].path = prev[k].path}
     IN IF hits = {} THEN prev[k]
        ELSE edited[CHOOSE j \in hits : \A m \in hits : j <= m]]

\* editKeywords.some(keyword => message.toLowerCase().includes(keyword))
isEditRequest(message) ==
  IncludesAny(message, {<<"edit">>, <<"change">>, <<"modify">>, <<"update">>, <<"fix">>,
                        <<"adjust">>, <<"add", SP, "to">>, <<"remove", SP, "from">>})

\* appState.files.map(f => `${f.path}:\n${f.content}`).join('\n\n---\n\n')
FilesContext[files \in Seq(FileRecords)] ==
  IF files = <<>> THEN <<>>
  ELSE Head(files).path \o <<":", NL>> \o Head(files).content
       \o (IF Len(files) > 1 THEN <<NL, NL, "---", NL, NL>> ELSE <<>>)
       \o FilesContext[Tail(files)]

\* editPromptWithContext of handleEditRequest
EditPrompt(files, editPrompt) ==
  <<"You are editing an existing web application. Here are the current files:", NL, NL>>
  \o FilesContext[files]
  \o <<NL, NL, "USER REQUEST:", SP>> \o editPrompt
  \o <<NL, NL, "IMPORTANT: Only return the MODIFIED files that need changes.">>

\* the prompt a request sends to generateApp
ServicePrompt(r) == IF r.kind = "edit" THEN EditPrompt(r.ctx, r.prompt) ELSE r.prompt

\* generateWithGemini after a successful response: parseResponse(content, template, isSinglePage)
ServiceResult(r, segs) ==
  parseResponse(Render[segs], detectTemplateFromPrompt(ServicePrompt(r)), isSinglePage(ServicePrompt(r)))

\* the files handleEditRequest leaves in the project for a service result
PatchIfAny(prev, editedFiles) ==
  IF Len(editedFiles) > 0 THEN PatchFiles(prev, editedFiles) ELSE prev
\* a variant that replaces the project by the files of the service result
EditOutcomeReplacing(prev, result) ==
  IF Len(result.files) > 0 THEN result.files ELSE prev

EditOutcomeFiles(prev, result) == PatchIfAny(prev, ExtractEdited(result.content))

NewRequest(kind, prompt, image) ==
  [id |-> nreq + 1, kind |-> kind, prompt |-> prompt, image |-> image,
   provider |-> selectedProvider, sel |-> selectedFile,
   ctx |-> IF kind = "edit" THEN appFiles ELSE <<>>,
   pc |-> "start", calls |-> 0, segs |-> <<>>, files |-> <<>>, description |-> <<>>]

\* the message of the Error a failed request was rejected with
ErrorOf(reason) ==
  CASE reason \in FailureReasons -> GenerationFailed
    [] reason = "provider" -> "provider not implemented yet"
    [] reason = "nofiles" -> "No files were generated for the edit request"
    [] OTHER -> None

\* what a finished request did: its outcome, the files it delivered, the
\* files it had before the decoration, the project files it found, whether
\* its image search succeeded and how many photos it brought
Done(r, outcome, files, reason, imagesOk, photos) ==
  [id |-> r.id, kind |-> r.kind, prompt |-> r.prompt, outcome |-> outcome,
   calls |-> r.calls, segs |-> r.segs, files |-> files, chosen |-> r.files,
   description |-> r.description, reason |-> reason, error |-> ErrorOf(reason),
   imagesOk |-> imagesOk, photos |-> photos, before |-> appFiles]

UserMessage == [role |-> "user", kind |-> "text"]
AssistantMessage(kind) == [role |-> "assistant", kind |-> kind]

\* handleFileGenerated, with the selectedFile its closure saw
handleFileGenerated(files, sel) ==
  /\ appFiles' = FilesAfterGenerated(appFiles, files)
  /\ selectedFile' = IF sel = NoFile /\ Len(files) > 0 THEN files[1].path ELSE selectedFile

\* AppGenerator.updateFileContent
updateFileContent(prev, path, content) ==
  [k \in 1..Len(prev) |->
     IF prev[k].path = path THEN [prev[k] EXCEPT !.content = content] ELSE prev[k]]

\* what the user can type into the editor before saving
EditorContents == {<<"z">>}

\* the finally blocks
Finally(r, done) ==
  /\ reqs' = reqs \ {r}
  /\ isGenerating' = FALSE
  /\ appIsGenerating' = FALSE
  /\ lastDone' = done

\* the catch branch of generateResponse
CatchGeneration(r, msgs, reason) ==
  /\ messages' = Append(msgs, AssistantMessage("fallback"))
  /\ handleFileGenerated(FallbackFiles, r.sel)
  /\ Finally(r, Done(r, "failed", FallbackFiles, reason, FALSE, 0))
  /\ UNCHANGED currentProject

\* the catch branch of handleEditRequest
CatchEdit(r, msgs, reason) ==
  /\ messages' = Append(msgs, AssistantMessage("error"))
  /\ Finally(r, Done(r, "failed", <<>>, reason, FALSE, 0))
  /\ UNCHANGED <<appFiles, selectedFile, currentProject>>

\* generateApp: the provider switch and the fetch of generateWithGemini
IssueCall(r, msgs) ==
  IF r.provider = "gemini"
  THEN /\ reqs' = (reqs \ {r}) \cup {[r EXCEPT !.pc = "fetch", !.calls = r.calls + 1]}
       /\ messages' = msgs
       /\ isGenerating' = TRUE
       /\ appIsGenerating' = TRUE
       /\ lastDone' = NoDone
       /\ UNCHANGED <<appFiles, selectedFile, currentProject>>
  ELSE IF r.kind = "edit" THEN CatchEdit(r, msgs, "provider")
  ELSE CatchGeneration(r, msgs, "provider")

\* generateResponse / handleEditRequest up to the first suspension
StartRequest(r, msgs) ==
  /\ nreq < MaxRequests
  /\ nreq' = nreq + 1
  /\ IF r.image
     THEN /\ reqs' = reqs \cup {[r EXCEPT !.pc = "reading"]}
          /\ messages' = msgs
          /\ isGenerating' = TRUE
          /\ appIsGenerating' = TRUE
          /\ lastDone' = NoDone
          /\ UNCHANGED <<appFiles, selectedFile, currentProject>>
     ELSE IssueCall(r, msgs)

(***************************************************************************)
(* Actions.                                                                *)
(***************************************************************************)
\* LandingPage.handleSubmit, Index.handleStartGeneration, and the mount effect
\* of ChatInterface (handleInitialGeneration)
handleSubmit(prompt, image) ==
  /\ currentView = "landing"
  /\ Trim[prompt] # <<>> \/ image
  /\ currentView' = "generator"
  /\ generationData' = [prompt |-> prompt, image |-> image]
  /\ IF prompt # <<>>
     THEN StartRequest(NewRequest("gen", prompt, image), <<UserMessage>>)
     ELSE UNCHANGED <<appFiles, selectedFile, currentProject, messages, reqs, nreq,
                      isGenerating, appIsGenerating, lastDone>>
  /\ UNCHANGED <<selectedProvider, orphans, aloneVars>>

\* a variant without the isGenerating test
handleSendMessageUnguarded(message) ==
  /\ currentView = "generator"
  /\ Trim[message] # <<>>
  /\ IF Len(appFiles) > 0 /\ isEditRequest(message)
     THEN StartRequest(NewRequest("edit", message, FALSE), Append(messages, UserMessage))
     ELSE StartRequest(NewRequest("gen", message, FALSE), Append(messages, UserMessage))
  /\ UNCHANGED <<currentView, generationData, selectedProvider, orphans, aloneVars>>

\* ChatInterface.handleSendMessage
handleSendMessage(message) ==
  /\ currentView = "generator"
  /\ Trim[message] # <<>>
  /\ ~isGenerating
  /\ IF Len(appFiles) > 0 /\ isEditRequest(message)
     THEN StartRequest(NewRequest("edit", message, FALSE), Append(messages, UserMessage))
     ELSE StartRequest(NewRequest("gen", message, FALSE), Append(messages, UserMessage))
  /\ UNCHANGED <<currentView, generationData, selectedProvider, orphans, aloneVars>>

\* reader.onload of generateResponse
FileReaderLoads(r) ==
  /\ r \in reqs /\ r.pc = "reading"
  /\ IssueCall(r, messages)
  /\ UNCHANGED <<currentView, generationData, selectedProvider, nreq, orphans, aloneVars>>

\* reader.readAsDataURL fails: the load event never comes, no handler takes
\* the error event, and the promise generateResponse awaits stays pending
FileReaderFails(r) ==
  /\ r \in reqs /\ r.pc = "reading"
  /\ reqs' = (reqs \ {r}) \cup {[r EXCEPT !.pc = "hung"]}
  /\ UNCHANGED <<currentView, generationData, appFiles, appIsGenerating, currentProject,
                 selectedProvider, selectedFile, isGenerating, messages, nreq, orphans,
                 lastDone, aloneVars>>

\* a variant that issues the call once more before giving up
GeminiFailsRetrying(r, reason) ==
  /\ r \in reqs /\ r.pc = "fetch"
  /\ IF r.calls < 2 THEN IssueCall(r, messages)
     ELSE IF r.kind = "edit" THEN CatchEdit(r, messages, reason)
     ELSE CatchGeneration(r, messages, reason)
  /\ UNCHANGED <<currentView, generationData, selectedProvider, nreq, orphans, aloneVars>>

\* the fetch of generateWithGemini fails, answers with a non-success status,
\* or answers with a payload that has no candidate text
GeminiFails(r, reason) ==
  /\ r \in reqs /\ r.pc = "fetch"
  /\ IF r.kind = "edit" THEN CatchEdit(r, messages, reason)
     ELSE CatchGeneration(r, messages, reason)
  /\ UNCHANGED <<currentView, generationData, selectedProvider, nreq, orphans, aloneVars>>

\* a variant that asks again for as long as the text stops inside a tag
GeminiAnswersContinuing(r, segs) ==
  /\ r \in reqs /\ r.pc = "fetch" /\ r.kind = "gen"
  /\ IF EndsMidTag(Render[segs]) /\ r.calls < 3
     THEN reqs' = (reqs \ {r}) \cup {[r EXCEPT !.calls = r.calls + 1]}
     ELSE \E result \in {ServiceResult(r, segs)} :
            reqs' = (reqs \ {r}) \cup
               {[r EXCEPT !.pc = "images", !.segs = segs, !.files = ChooseFiles(result),
                          !.description = ShownDescription(result, detectTemplateFromPrompt(r.prompt),
                                                          isSinglePage(r.prompt))]}
  /\ UNCHANGED <<currentView, generationData, appFiles, appIsGenerating, currentProject,
                 selectedProvider, selectedFile, isGenerating, messages, nreq, orphans,
                 lastDone, aloneVars>>

\* the fetch of generateWithGemini succeeds for a generation
GeminiAnswersGeneration(r, segs) ==
  /\ r \in reqs /\ r.pc = "fetch" /\ r.kind = "gen"
  /\ \E result \in {ServiceResult(r, segs)} :
       reqs' = (reqs \ {r}) \cup
          {[r EXCEPT !.pc = "images", !.segs = segs, !.files = ChooseFiles(result),
                     !.description = ShownDescription(result, detectTemplateFromPrompt(r.prompt),
                                                          isSinglePage(r.prompt))]}
  /\ UNCHANGED <<currentView, generationData, appFiles, appIsGenerating, currentProject,
                 selectedProvider, selectedFile, isGenerating, messages, nreq, orphans,
                 lastDone, aloneVars>>

\* a variant that appends the files of the service result to the project
GeminiAnswersEditAdding(r, segs) ==
  /\ r \in reqs /\ r.pc = "fetch" /\ r.kind = "edit"
  /\ \E result \in {ServiceResult(r, segs)} :
     \E editedFiles \in {ExtractEdited(result.content)} :
     LET rr == [r EXCEPT !.segs = segs]
     IN /\ appFiles' = EditOutcomeFiles(appFiles, result) \o result.files
        /\ IF Len(editedFiles) > 0
           THEN /\ messages' = Append(messages, AssistantMessage("edited"))
                /\ Finally(r, Done(rr, "ok", editedFiles, None, FALSE, 0))
           ELSE /\ messages' = Append(messages, AssistantMessage("error"))
                /\ Finally(r, Done(rr, "failed", <<>>, "nofiles", FALSE, 0))
  /\ UNCHANGED <<currentView, generationData, currentProject, selectedProvider,
                 selectedFile, nreq, orphans, aloneVars>>

\* the fetch of generateWithGemini succeeds for an edit
GeminiAnswersEdit(r, segs) ==
  /\ r \in reqs /\ r.pc = "fetch" /\ r.kind = "edit"
  /\ \E result \in {ServiceResult(r, segs)} :
     \E editedFiles \in {ExtractEdited(result.content)} :
     LET rr == [r EXCEPT !.segs = segs]
     IN /\ appFiles' = EditOutcomeFiles(appFiles, result)
        /\ IF Len(editedFiles) > 0
           THEN /\ messages' = Append(messages, AssistantMessage("edited"))
                /\ Finally(r, Done(rr, "ok", editedFiles, None, FALSE, 0))
           ELSE /\ messages' = Append(messages, AssistantMessage("error"))
                /\ Finally(r, Done(rr, "failed", <<>>, "nofiles", FALSE, 0))
  /\ UNCHANGED <<currentView, generationData, currentProject, selectedProvider,
                 selectedFile, nreq, orphans, aloneVars>>

\* the rest of generateResponse once searchImages settled with `files`
FinishGeneration(r, files, imagesOk, photos) ==
  /\ messages' = Append(messages, AssistantMessage("generated"))
  /\ handleFileGenerated(files, r.sel)
  /\ currentProject' = [description |-> r.prompt]
  /\ Finally(r, Done(r, "ok", files, None, imagesOk, photos))
  /\ UNCHANGED <<currentView, generationData, selectedProvider, nreq, orphans, aloneVars>>

\* searchImages resolves
ImagesArrive(r, images) ==
  /\ r \in reqs /\ r.pc = "images"
  /\ FinishGeneration(r, Decorate(r.files, images), TRUE, Len(images))

\* a variant in which the rejection reaches the catch branch of generateResponse
ImagesFailRethrown(r) ==
  /\ r \in reqs /\ r.pc = "images"
  /\ CatchGeneration(r, messages, "images")
  /\ UNCHANGED <<currentView, generationData, selectedProvider, nreq, orphans, aloneVars>>

\* searchImages rejects
ImagesFail(r) ==
  /\ r \in reqs /\ r.pc = "images"
  /\ FinishGeneration(r, r.files, FALSE, 0)

\* CodeEditor.handleSave on the selected file, which the editor shows when
\* the project has a file of that path; Save is enabled when the text differs
\* from the content of that file. The project is then no longer as the last
\* finished request left it.
handleSave(content) ==
  /\ currentView = "generator"
  /\ selectedFile # NoFile
  /\ \E k \in 1..Len(appFiles) :
       /\ appFiles[k].path = selectedFile
       /\ \A j \in 1..(k - 1) : appFiles[j].path # selectedFile
       /\ appFiles[k].content # content
  /\ appFiles' = updateFileContent(appFiles, selectedFile, content)
  /\ lastDone' = NoDone
  /\ UNCHANGED <<currentView, generationData, appIsGenerating, currentProject, selectedProvider,
                 selectedFile, isGenerating, messages, reqs, nreq, orphans, aloneVars>>

\* a click on a file of the file list: setSelectedFile(file.path)
handleFileSelect(path) ==
  /\ currentView = "generator"
  /\ path # selectedFile
  /\ \E k \in 1..Len(appFiles) : appFiles[k].path = path
  /\ selectedFile' = path
  /\ UNCHANGED <<currentView, generationData, appFiles, appIsGenerating, currentProject,
                 selectedProvider, isGenerating, messages, reqs, nreq, orphans, lastDone,
                 aloneVars>>

\* ProviderSelector.handleProviderChange
handleProviderChange(provider) ==
  /\ currentView = "generator"
  /\ provider # selectedProvider
  /\ selectedProvider' = provider
  /\ UNCHANGED <<currentView, generationData, appFiles, appIsGenerating, currentProject,
                 selectedFile, isGenerating, messages, reqs, nreq, orphans, lastDone,
                 aloneVars>>

\* Index.handleBackToLanding: the generator unmounts, its requests run on
handleBackToLanding ==
  /\ currentView = "generator"
  /\ currentView' = "landing"
  /\ generationData' = None
  /\ appFiles' = <<>>
  /\ appIsGenerating' = FALSE
  /\ currentProject' = None
  /\ selectedProvider' = "gemini"
  /\ selectedFile' = NoFile
  /\ isGenerating' = FALSE
  /\ messages' = <<>>
  /\ orphans' = orphans + Cardinality({r \in reqs : r.pc # "hung"})
  /\ reqs' = {}
  /\ lastDone' = NoDone
  /\ UNCHANGED <<nreq, aloneVars>>

\* a request of an unmounted session settles: its state updates reach nothing
OrphanSettles ==
  /\ orphans > 0
  /\ orphans' = orphans - 1
  /\ UNCHANGED <<currentView, generationData, appFiles, appIsGenerating, currentProject,
                 selectedProvider, selectedFile, isGenerating, messages, reqs, nreq, lastDone,
                 aloneVars>>

Next ==
  \/ \E prompt \in Prompts, image \in BOOLEAN : handleSubmit(prompt, image)
  \/ \E message \in Prompts : handleSendMessage(message)
  \/ \E r \in reqs : FileReaderLoads(r)
  \/ \E r \in reqs : FileReaderFails(r)
  \/ \E r \in reqs, reason \in FailureReasons : GeminiFails(r, reason)
  \/ \E r \in reqs, segs \in ReplyLists : GeminiAnswersGeneration(r, segs)
  \/ \E r \in reqs, segs \in ReplyLists : GeminiAnswersEdit(r, segs)
  \/ \E r \in reqs, images \in ImageLists : ImagesArrive(r, images)
  \/ \E r \in reqs : ImagesFail(r)
  \/ \E content \in EditorContents : handleSave(content)
  \/ \E path \in {IndexPath, AboutPath} : handleFileSelect(path)
  \/ \E provider \in Providers : handleProviderChange(provider)
  \/ handleBackToLanding
  \/ OrphanSettles

Spec == Init /\ [][Next]_vars

\* every read of an image, every text-generation call and every image search
\* eventually settles, one way or the other
SpecLive ==
  /\ Init /\ [][Next]_vars
  /\ WF_vars(\E r \in reqs : FileReaderLoads(r) \/ FileReaderFails(r))
  /\ WF_vars(\E r \in reqs :
               \/ \E reason \in FailureReasons : GeminiFails(r, reason)
               \/ \E segs \in ReplyLists :
                    GeminiAnswersGeneration(r, segs) \/ GeminiAnswersEdit(r, segs))
  /\ WF_vars(\E r \in reqs :
               ImagesFail(r) \/ \E images \in ImageLists : ImagesArrive(r, images))

(***************************************************************************)
(* The parser alone: AIService.parseResponse followed by the second parse  *)
(* and the clean-up of generateResponse, applied to every completion of at *)
(* most MaxSegs segments.                                                  *)
(***************************************************************************)
ParseInputs == [segs : SegLists, prompt : Prompts \ {PromptEmpty}]

InitParse ==
  /\ AppInit
  /\ input \in ParseInputs
  /\ parsed = <<>>
  /\ TemplateIdle
  /\ DecorateIdle

Parse ==
  /\ input # NoInput
  /\ parsed = <<>>
  /\ \E result \in {parseResponse(Render[input.segs], detectTemplateFromPrompt(input.prompt),
                                   isSinglePage(input.prompt))} :
     \E fallback \in {FallbackDescription(detectTemplateFromPrompt(input.prompt),
                                          isSinglePage(input.prompt), Len(result.files))} :
       parsed' = << [files |-> result.files,
                     content |-> result.content,
                     fallback |-> fallback,
                     again |-> Sanitize(result.content, fallback),
                     chosen |-> ChooseFiles(result),
                     shown |-> ShownDescription(result, detectTemplateFromPrompt(input.prompt),
                                               isSinglePage(input.prompt))] >>
  /\ UNCHANGED <<input, appVars, templateVars, decorateVars>>

NextParse == Parse

SpecParse == InitParse /\ [][NextParse]_vars

(***************************************************************************)
(* TemplateService alone: detectTemplateFromPrompt and isSinglePage        *)
(* applied to every prompt of at most MaxWords words.                      *)
(***************************************************************************)
MaxWords == 3

\* the words a prompt is made of: one keyword of each category in some
\* letter case, the words of the multi-page tests, and a word that is no keyword
TemplateWords ==
  {"SHOP", "portfolio", "Blog", "dashboard", "landing", "about", "contact", "service",
   "page", "single", "hello"}

\* the words of a prompt separated by single spaces
JoinWords[ws \in Seq(STRING)] ==
  IF Len(ws) <= 1 THEN ws ELSE <<Head(ws), SP>> \o JoinWords[Tail(ws)]

TemplatePrompts == {JoinWords[ws] : ws \in UNION {[1..n -> TemplateWords] : n \in 0..MaxWords}}

InitTemplate ==
  /\ AppInit
  /\ ParseIdle
  /\ DecorateIdle
  /\ request \in TemplatePrompts
  /\ derived = <<>>

\* the two derivations generateWithGemini makes for a prompt
Detect ==
  /\ derived = <<>>
  /\ derived' = << [template |-> detectTemplateFromPrompt(request),
                    single |-> isSinglePage(request)] >>
  /\ UNCHANGED <<request, appVars, parseVars, decorateVars>>

NextTemplate == Detect

SpecTemplate == InitTemplate /\ [][NextTemplate]_vars

(***************************************************************************)
(* The image decoration alone: the files.map of generateResponse applied   *)
(* to lists of two files and to every photo list.                          *)
(***************************************************************************)
MaxRefs == 4

\* what the markup of a file is made of: an image tag on a URL of the
\* placeholder service (V), on an earlier Unsplash URL (U), on a local
\* picture (I), and a background declaration (G)
ItemIds == {"V", "U", "I", "G"}

ItemText(id) ==
  CASE id = "V" -> <<ImgSrc, "https://via.placeholder.com/300", Quote>>
    [] id = "U" -> <<ImgSrc, "https://images.unsplash.com/old", Quote>>
    [] id = "I" -> <<ImgSrc, "hero.png", Quote>>
    [] OTHER -> <<"background:", SP, "#fff", ";">>

RenderItems[items \in Seq(ItemIds)] ==
  IF items = <<>> THEN <<>> ELSE ItemText(Head(items)) \o RenderItems[Tail(items)]

\* the first file: an HTML page or a style sheet, with or without a <body
FirstFile(path, opener, items) ==
  [path |-> path, content |-> <<opener>> \o RenderItems[items],
   language |-> IF path = StylePath THEN <<"css">> ELSE HtmlLang]

\* the second file: an HTML page with one placeholder picture
SecondFile ==
  [path |-> AboutPath, content |-> <<"<body>">> \o ItemText("V"), language |-> HtmlLang]

DecoFileLists ==
  {<<FirstFile(path, opener, items), SecondFile>> :
     path \in {IndexPath, StylePath}, opener \in {"<body>", "<div>"},
     items \in UNION {[1..n -> ItemIds] : n \in 0..MaxRefs}}

DecoInputs == [files : DecoFileLists, images : ImageLists]

InitDecorate ==
  /\ AppInit
  /\ ParseIdle
  /\ TemplateIdle
  /\ deco \in DecoInputs
  /\ decorated = <<>>

\* the decoration of the files, and the decoration of its own result with
\* the same photos
DecorateFiles ==
  /\ decorated = <<>>
  /\ \E files \in {Decorate(deco.files, deco.images)} :
       decorated' = << [files |-> files, again |-> Decorate(files, deco.images)] >>
  /\ UNCHANGED <<deco, appVars, parseVars, templateVars>>

NextDecorate == DecorateFiles

SpecDecorate == InitDecorate /\ [][NextDecorate]_vars

(***************************************************************************)
(* Properties.                                                             *)
(***************************************************************************)
\* segments that hold no FILE: marker
UnmarkedIds == {"H1", "P1", "P2"}

\* every FILE:-marked block of the completion is well formed
OnlyWellFormed(segs) == \A k \in 1..Len(segs) : segs[k] \in BlockIds \cup UnmarkedIds

InBlockIds(id) == id \in BlockIds
BlocksOf(segs) == SelectSeq(segs, InBlockIds)

RecordIsBlock(f, b) ==
  /\ f.path = b.path
  /\ f.content = b.content
  /\ b.language # <<>> => f.language = LowerSeq[b.language]

RecordsAreBlocks(files, ids) ==
  /\ Len(files) = Len(ids)
  /\ \A k \in 1..Len(ids) : RecordIsBlock(files[k], Blocks[ids[k]])

\* the paths that follow a FILE: marker in a response
MarkedPaths(segs) ==
  UNION {IF segs[k] \in BlockIds THEN {Blocks[segs[k]].path}
         ELSE IF segs[k] = "T1" THEN {IndexPath} ELSE {} : k \in 1..Len(segs)}

Finished == lastDone.id # 0
NetworkFailed == lastDone.reason \in FailureReasons

\* C1: a completion with N well-formed FILE:-marked blocks yields exactly N
\* records, in the order of the blocks, each with the block's path, content and
\* declared (lower-cased) language; a repeated path is kept; the files
\* generateResponse goes on with are these records.
C1_ExtractsEveryBlockInOrder ==
  (parsed # <<>> /\ OnlyWellFormed(input.segs)) =>
    /\ RecordsAreBlocks(parsed[1].files, BlocksOf(input.segs))
    /\ BlocksOf(input.segs) # <<>> => parsed[1].chosen = parsed[1].files

C1_Witness ==
  /\ parsed # <<>>
  /\ input.segs = <<"B1", "P1", "B3">>
  /\ Len(parsed[1].files) = 2
  /\ parsed[1].files[1].path = parsed[1].files[2].path

\* C2: when the completion of a generation yields no extracted file, the
\* project receives exactly one placeholder HTML file and its content
\* contains the prompt verbatim.
C2_PlaceholderEmbedsPrompt ==
  (Finished /\ lastDone.kind = "gen" /\ lastDone.outcome = "ok"
     /\ ExtractFiles(Render[lastDone.segs]) = <<>>) =>
    /\ Len(lastDone.files) = 1
    /\ lastDone.files[1].language = HtmlLang
    /\ Contains(lastDone.files[1].content, lastDone.prompt)

\* C3: when the response to an edit holds a FILE:-marked block whose path is
\* the path of a project file, that file's content is the block's content
\* once the edit has completed.
C3_EditedFileTakesBlockContent ==
  (Finished /\ lastDone.kind = "edit") =>
    \A i \in 1..Len(lastDone.segs), k \in 1..Len(lastDone.before) :
      (/\ lastDone.segs[i] \in BlockIds
       /\ lastDone.before[k].path = Blocks[lastDone.segs[i]].path
       /\ \A j \in (i + 1)..Len(lastDone.segs) :
            lastDone.segs[j] \in BlockIds =>
              Blocks[lastDone.segs[j]].path # Blocks[lastDone.segs[i]].path)
      => /\ k <= Len(appFiles)
         /\ appFiles[k].content = Blocks[lastDone.segs[i]].content

\* C4: after an edit has completed, every project file whose path does not
\* appear in the response is where it was, with the same path, content and
\* language.
C4_EditLeavesOtherFiles ==
  (Finished /\ lastDone.kind = "edit") =>
    /\ Len(appFiles) = Len(lastDone.before)
    /\ \A k \in 1..Len(lastDone.before) :
         lastDone.before[k].path \notin MarkedPaths(lastDone.segs)
           => appFiles[k] = lastDone.before[k]

C4_Witness ==
  /\ Finished
  /\ lastDone.kind = "edit"
  /\ lastDone.segs = <<"B2">>
  /\ Len(appFiles) > 0
  /\ appFiles[1].path = IndexPath

\* C5: after a fresh generation has completed successfully the project's
\* files are exactly the files of its result.
C5_GenerationReplacesFiles ==
  (Finished /\ lastDone.kind = "gen" /\ lastDone.outcome = "ok") =>
    appFiles = lastDone.files

C5_Witness ==
  /\ Finished
  /\ lastDone.kind = "gen"
  /\ lastDone.outcome = "ok"
  /\ lastDone.before # <<>>
  /\ lastDone.before # appFiles

\* C6: a non-success response of the text-generation service makes the
\* request fail with the generation-failed error after exactly one call, and
\* the request is over: no further call is issued for it.
C6_FailureIsNotRetried ==
  (Finished /\ lastDone.reason \in {"status", "payload"}) =>
    /\ lastDone.outcome = "failed"
    /\ lastDone.error = GenerationFailed
    /\ lastDone.calls = 1
    /\ \A r \in reqs : r.id # lastDone.id

C6_Witness ==
  /\ Finished
  /\ lastDone.reason = "status"
  /\ lastDone.calls = 1
  /\ messages[Len(messages)].kind \in {"fallback", "error"}

\* C7: a request whose network calls all succeed ends without a failure or an
\* error message and with a non-empty file result.
C7_OnlyTransportFails ==
  (Finished /\ lastDone.calls >= 1 /\ ~NetworkFailed
     /\ (lastDone.kind = "gen" => lastDone.imagesOk)) =>
    /\ lastDone.outcome = "ok"
    /\ Len(lastDone.files) > 0
    /\ messages[Len(messages)].kind \notin {"error", "fallback"}

\* C8: from the submission that opens a generator session until Back, the
\* session has at most one request in flight, and while isGenerating is true
\* no step starts a request.
C8_OneRequestAtATime ==
  [][Cardinality(reqs') <= 1 /\ (isGenerating => nreq' = nreq)]_vars

\* C8 as stated: at most one request is in flight at any time, the requests
\* that Back left running included.
C8_AtMostOneOutstanding == Cardinality(reqs) + orphans <= 1

C8_Witness ==
  /\ isGenerating
  /\ \E r \in reqs : r.id = 2

\* C9: when the completion ends inside a tag, the continuation is invoked
\* exactly once (two calls in all) and a delivered file holds the text from
\* before the truncation followed by the continuation.
C9_TruncationIsContinued ==
  (Finished /\ lastDone.kind = "gen" /\ ~NetworkFailed /\ lastDone.calls >= 1
     /\ EndsMidTag(Render[lastDone.segs])) =>
    /\ lastDone.calls = 2
    /\ \E k \in 1..Len(lastDone.files) : Contains(lastDone.files[k].content, <<MidTag>>)

\* C10: a request issues at most two text-generation calls, one after the
\* other, also when the text it received is truncated.
C10_AtMostTwoCalls ==
  /\ \A r \in reqs : r.calls <= 2
  /\ Finished => lastDone.calls <= 2

C10_Witness ==
  /\ Finished
  /\ lastDone.kind = "gen"
  /\ lastDone.outcome = "ok"
  /\ EndsMidTag(Render[lastDone.segs])
  /\ lastDone.calls = 1

\* an opening fence of the text has no closing fence
UnclosedFence(text) == Cardinality({i \in 1..Len(text) : text[i] = FENCE}) % 2 = 1

\* the text stops inside a tag or inside a fenced block
StopsShort(text) == EndsMidTag(text) \/ UnclosedFence(text)

\* C11: the truncation test decides whether the continuation is asked for:
\* a generation whose completion is empty or complete and balanced makes no
\* second call, and one whose completion stops inside a tag or inside an
\* unclosed fence is found truncated and makes a second call.
C11_TruncationIsDetected ==
  (Finished /\ lastDone.kind = "gen" /\ lastDone.outcome = "ok") =>
    (StopsShort(Render[lastDone.segs]) <=> lastDone.calls > 1)

\* the completion holds no FILE: marker
NoMarkers(segs) == \A k \in 1..Len(segs) : segs[k] \in UnmarkedIds

IsBareHtml(id) == id = "H1"
BareHtmlOf(segs) == SelectSeq(segs, IsBareHtml)

\* the file name given to the k-th bare html block
SyntheticName(k) ==
  CASE k = 1 -> <<"index.html">>
    [] k = 2 -> <<"about.html">>
    [] k = 3 -> <<"contact.html">>
    [] OTHER -> <<"page", ToString(k), ".html">>

\* C12: a completion without FILE: marker but with M bare html fenced blocks
\* yields M records, in source order, named index.html, about.html,
\* contact.html, page4.html and so on, each holding its block's content.
C12_BareHtmlBlocksBecomePages ==
  (parsed # <<>> /\ NoMarkers(input.segs)) =>
    /\ Len(parsed[1].files) = Len(BareHtmlOf(input.segs))
    /\ \A k \in 1..Len(parsed[1].files) :
         /\ parsed[1].files[k].path = SyntheticName(k)
         /\ parsed[1].files[k].content = <<"x">>

BraceTokens == {"{", "}"}
HasFence(text) == \E i \in 1..Len(text) : text[i] = FENCE
HasBrace(text) == \E i \in 1..Len(text) : text[i] \in BraceTokens

\* the acceptance test of a cleaned description
Acceptable(d) ==
  /\ TextLen[d] >= MinDescription
  /\ ~HasFence(d)
  /\ ~HasBrace(d)
  /\ ~StartsWithOpener(d)

\* C13: the description parsing returns is either the synthesized fallback or
\* a cleaned remainder of at least 50 characters that holds no fence marker
\* and no brace and does not begin with Generated Files, Here or The.
C13_DescriptionIsAcceptableOrFallback ==
  parsed # <<>> =>
    \/ parsed[1].content = parsed[1].fallback
    \/ Acceptable(parsed[1].content)

\* C14: sanitizing a sanitized description once more, with the same
\* synthesized fallback at hand, returns it as it is, also when it is the
\* synthesized fallback.
C14_SanitizeIsIdempotent ==
  parsed # <<>> => parsed[1].again = parsed[1].content

ProseIds == {"P1", "P2"}
ProseOnly(segs) == segs # <<>> /\ \A k \in 1..Len(segs) : segs[k] \in ProseIds

\* a text without its white space
IsWord(t) == t \notin Spaces
Words(text) == SelectSeq(text, IsWord)

\* the text holds neither a FILE: marker nor the words Generated Files
NoFileWords(text) ==
  \A i \in 1..Len(text) : text[i] \notin {FILE} \cup GeneratedFilesTokens

\* C15 as stated: a description made purely of prose, without fence or
\* brace and of at least 50 characters, is returned unchanged up to white
\* space.
C15_ProseIsUnchanged ==
  (parsed # <<>> /\ ProseOnly(input.segs)
     /\ TextLen[Trim[Render[input.segs]]] >= MinDescription) =>
    Words(parsed[1].content) = Words(Render[input.segs])

\* C15: a description made purely of prose, without fence, brace or FILE:
\* marker, of at least 50 characters once trimmed and not beginning with
\* Generated Files, Here or The, is returned by parseResponse and shown by
\* the chat unchanged up to white space.
C15_AcceptedProseIsUnchanged ==
  (parsed # <<>> /\ ProseOnly(input.segs)
     /\ TextLen[Trim[Render[input.segs]]] >= MinDescription
     /\ NoFileWords(Render[input.segs])
     /\ ~StartsWithOpener(Trim[Render[input.segs]])) =>
    /\ Words(parsed[1].content) = Words(Render[input.segs])
    /\ Words(parsed[1].shown) = Words(Render[input.segs])

C15_Witness ==
  /\ parsed # <<>>
  /\ input.segs = <<"P1", "P2", "P1">>
  /\ parsed[1].content # parsed[1].fallback
  /\ Len(parsed[1].shown) = 7

\* C16: when the sanitizer rejects the remainder of the completion and
\* parseResponse returns the synthesized fallback, the description shown in
\* the chat is that fallback in full: page mode, template name and category,
\* file count and feature list.
C16_FallbackIsShownInFull ==
  (parsed # <<>> /\ parsed[1].content = parsed[1].fallback) =>
    Words(parsed[1].shown) = Words(parsed[1].fallback)

\* the text-generation call of the finished request succeeded
TextArrived == lastDone.calls >= 1 /\ lastDone.reason \notin FailureReasons

\* C17: when the image search fails or brings no photo, the generation still
\* ends well: the delivered files are the files it had before the decoration,
\* they are the project's files, the assistant message is appended, the
\* project is updated and the generating flags are reset.
C17_NoPhotosLeavesFiles ==
  (Finished /\ lastDone.kind = "gen" /\ TextArrived
     /\ (~lastDone.imagesOk \/ lastDone.photos = 0)) =>
    /\ lastDone.outcome = "ok"
    /\ lastDone.files = lastDone.chosen
    /\ appFiles = lastDone.chosen
    /\ messages[Len(messages)] = AssistantMessage("generated")
    /\ currentProject = [description |-> lastDone.prompt]
    /\ ~isGenerating /\ ~appIsGenerating

C17_Witness ==
  /\ Finished
  /\ lastDone.kind = "gen"
  /\ TextArrived
  /\ ~lastDone.imagesOk
  /\ lastDone.outcome = "ok"
  /\ appFiles = PlaceholderFiles

UniquePaths(files) ==
  \A i, j \in 1..Len(files) : i # j => files[i].path # files[j].path

\* C18: no two files of the project have the same path.
C18_ProjectPathsAreUnique == UniquePaths(appFiles)

\* C19: a submission with an empty prompt and an image opens the generator
\* with a generation started for it: the session has its user message and a
\* request in flight or finished.
C19_ImageOnlyStartsGeneration ==
  (currentView = "generator" /\ generationData.prompt = PromptEmpty /\ generationData.image) =>
    /\ messages # <<>>
    /\ isGenerating \/ Finished

\* C20: only the gemini path of generateApp is ever taken: whatever provider
\* and model the user selected before submitting, no finished request was
\* dispatched to the OpenAI or Claude stub and rejected by it.
C20_OnlyGeminiIsDispatched ==
  Finished => lastDone.reason # "provider"

\* the completion ends with a FILE:-marked block whose closing fence is
\* missing, and every fence before that block is closed
EndsUnclosed(segs) ==
  /\ segs # <<>>
  /\ segs[Len(segs)] = "T1"
  /\ \A k \in 1..(Len(segs) - 1) : segs[k] # "T1"

\* C21: a FILE:-marked block whose closing fence is missing because the text
\* ends first is still extracted: the last record has the block's path and,
\* as content, everything after the opening fence line up to the end of text.
C21_UnclosedBlockIsExtracted ==
  (parsed # <<>> /\ EndsUnclosed(input.segs)) =>
    /\ Len(parsed[1].files) > 0
    /\ parsed[1].files[Len(parsed[1].files)].path = <<"index.html">>
    /\ parsed[1].files[Len(parsed[1].files)].content = <<MidTag>>

\* C22: every record returned by the extraction has a path and a content
\* that are not empty after trimming: a matched block whose trimmed path or
\* content is empty leaves no record.
C22_RecordsAreNotEmpty ==
  parsed # <<>> =>
    \A k \in 1..Len(parsed[1].files) :
      /\ parsed[1].files[k].path # <<>>
      /\ parsed[1].files[k].content # <<>>

\* the categories in the order of their tests, and what makes a prompt match
\* each: a keyword of its set or, for the corporate template, the multi-page
\* tests
CategoryOrder == <<"ecommerce", "portfolio", "blog", "dashboard", "landing", "business">>

HasWord(p, w) == \E i \in 1..Len(p) : LowerSeq[p][i] = w
HasAnyWord(p, ws) == \E w \in ws : HasWord(p, w)
HasPhrase(p, a, b) ==
  \E i \in 1..(Len(p) - 2) :
    LowerSeq[p][i] = a /\ LowerSeq[p][i + 1] = SP /\ LowerSeq[p][i + 2] = b

CategoryMatches(p, c) ==
  CASE c = "ecommerce" ->
         HasAnyWord(p, {"shop", "store", "ecommerce", "product", "cart", "buy", "sell"})
    [] c = "portfolio" ->
         HasAnyWord(p, {"portfolio", "showcase", "gallery", "creative", "designer", "artist"})
    [] c = "blog" ->
         HasAnyWord(p, {"blog", "article", "news", "magazine", "content", "post"})
    [] c = "dashboard" ->
         HasAnyWord(p, {"dashboard", "admin", "analytics", "management", "data", "chart"})
    [] c = "landing" ->
         HasAnyWord(p, {"landing", "conversion", "marketing"}) \/ HasPhrase(p, "single", "page")
    [] OTHER ->
         \/ HasWord(p, "about") /\ HasWord(p, "contact") /\ HasAnyWord(p, {"service", "company"})
         \/ HasWord(p, "page") /\ ~HasWord(p, "single")

MatchingCategories(p) == {k \in 1..Len(CategoryOrder) : CategoryMatches(p, CategoryOrder[k])}

FirstCategory(p) ==
  IF MatchingCategories(p) = {} THEN "landing"
  ELSE CategoryOrder[CHOOSE k \in MatchingCategories(p) : \A m \in MatchingCategories(p) : k <= m]

MultiPageIndicator(p) == HasAnyWord(p, {"about", "contact", "service"})

\* C23: the template is the one of the first category, in the order
\* e-commerce, portfolio, blog, dashboard, landing, corporate, that the prompt
\* matches; template and page mode do not depend on the letter case of the
\* prompt; a prompt that matches no category and has no multi-page indicator
\* word gets the landing-page template in single-page mode.
C23_FirstMatchingCategoryWins ==
  derived # <<>> =>
    /\ derived[1].template.category = FirstCategory(request)
    /\ derived[1].template = detectTemplateFromPrompt(LowerSeq[request])
    /\ derived[1].single = isSinglePage(LowerSeq[request])
    /\ (MatchingCategories(request) = {} /\ ~MultiPageIndicator(request)) =>
         derived[1].template = Templates.landing /\ derived[1].single

\* a keyword of the first category in capitals behind a keyword of the second
C23_Witness ==
  /\ derived # <<>>
  /\ request = <<"portfolio", SP, "SHOP">>
  /\ derived[1].template = Templates.ecommerce

\* a file the decoration has to rewrite
IsHtmlWithBody(f) == EndsWithHtml(f.path) /\ HasBody(f.content)

\* C24: the decoration returns as many files as it was given, in the same
\* order, with the same paths and languages, and every file whose path does
\* not end in .html or whose content has no <body is returned unchanged.
C24_DecorationKeepsOtherFiles ==
  decorated # <<>> =>
    /\ Len(decorated[1].files) = Len(deco.files)
    /\ \A k \in 1..Len(deco.files) :
         /\ decorated[1].files[k].path = deco.files[k].path
         /\ decorated[1].files[k].language = deco.files[k].language
         /\ ~IsHtmlWithBody(deco.files[k]) => decorated[1].files[k] = deco.files[k]

\* a style sheet that holds a <body and a placeholder picture is left alone
\* while the page next to it is rewritten
C24_Witness ==
  /\ decorated # <<>>
  /\ deco.files[1].path = StylePath
  /\ deco.files[1].content = <<"<body>">> \o ItemText("V")
  /\ decorated[1].files[1] = deco.files[1]
  /\ decorated[1].files[2] # deco.files[2]

\* C25: decorating the decorated files again with the same photos changes
\* nothing.
C25_DecorationIsIdempotent ==
  decorated # <<>> => decorated[1].again = decorated[1].files

\* the values of the src attributes of a content, in document order
SrcPositions(content) == {i \in 2..Len(content) : content[i - 1] = ImgSrc}
SrcValues(content) ==
  [k \in 1..Cardinality(SrcPositions(content)) |->
     content[CHOOSE i \in SrcPositions(content) :
               Cardinality({j \in SrcPositions(content) : j < i}) = k - 1]]

\* the placeholder pattern that replaces a reference (5: none, the reference
\* is replaced by the rewrite of the image tags)
PatternOf(t) ==
  IF t \in PatternTokens(1) THEN 1 ELSE IF t \in PatternTokens(2) THEN 2 ELSE 5

\* the references of a file that came back with another value, and how many
\* of them were replaced before the k-th: the patterns run one after the
\* other, each over the whole file
ReplacedRefs(old, new) == {k \in 1..Len(old) : new[k] # old[k]}
ReplacedBefore(old, new, k) ==
  Cardinality({j \in ReplacedRefs(old, new) :
                 \/ PatternOf(old[j]) < PatternOf(old[k])
                 \/ PatternOf(old[j]) = PatternOf(old[k]) /\ j < k})

RoundRobin(old, new, images) ==
  /\ Len(new) = Len(old)
  /\ \A k \in ReplacedRefs(old, new) :
       new[k] = images[(ReplacedBefore(old, new, k) % Len(images)) + 1]

\* C26: in an HTML file the replaced image references take the n photos in
\* turn: the k-th replaced reference, counting from 0, has photo k mod n,
\* also when there are more references than photos.
C26_PhotosGoRoundRobin ==
  (decorated # <<>> /\ deco.images # <<>>) =>
    \A f \in 1..Len(deco.files) :
      IsHtmlWithBody(deco.files[f]) =>
        RoundRobin(SrcValues(deco.files[f].content),
                   SrcValues(decorated[1].files[f].content), deco.images)

\* C27: the file selected in the code editor, when one is selected, is the
\* path of a file of the project.
C27_SelectedFileIsInProject ==
  selectedFile # NoFile => \E k \in 1..Len(appFiles) : appFiles[k].path = selectedFile

\* C28: every started request eventually finishes with both generating
\* flags reset: whenever a request is running, a moment comes at which
\* isGenerating and appState.isGenerating are both false.
C28_RequestsFinish ==
  isGenerating ~> (~isGenerating /\ ~appIsGenerating)

\* C29: a request that failed because its text-generation call failed
\* leaves the files of the project as they were before the request.
C29_FailureLeavesFiles ==
  (Finished /\ NetworkFailed) => appFiles = lastDone.before

\* the sequence of paths of a file list
PathsOf(files) == [k \in 1..Len(files) |-> files[k].path]

\* C30: an edit neither adds nor removes a file: when it is over the
\* project has the paths it had before, in the same order.
C30_EditKeepsPaths ==
  (Finished /\ lastDone.kind = "edit") => PathsOf(appFiles) = PathsOf(lastDone.before)

\* an edit whose response holds a block for a path the project does not have
C30_Witness ==
  /\ Finished
  /\ lastDone.kind = "edit"
  /\ lastDone.segs = <<"B2">>
  /\ PathsOf(lastDone.before) = <<IndexPath>>
  /\ PathsOf(appFiles) = <<IndexPath>>
====
